---- MODULE Spec2Model ----
(***************************************************************************)
(* Model of trust-store-updater: the update orchestration of               *)
(* internal/updater/service.go, the certificate helpers of internal/cert   *)
(* and the store manager of internal/certstore.                            *)
(*                                                                         *)
(* A run of Service.UpdateTrustStores is a sequence of steps: the          *)
(* configuration check, the construction of the store registry, the        *)
(* backup of all stores, one step per certificate source fetched, one per  *)
(* store updated, and the validation of all stores.  pc names the last     *)
(* stage the run has completed; calls records, per store, the calls made   *)
(* on it.  The other specifications (SpecValidate, SpecDiff, SpecRegister, *)
(* SpecRerun, SpecFetchURL, SpecParse, SpecWalk, SpecFilter, SpecStore)    *)
(* call a single function on drawn arguments.                              *)
(***************************************************************************)
EXTENDS Integers, Sequences, FiniteSets, TLC

\* ---------------------------------------------------------------- bounds
MaxFetch == 2         \* certificates one source yields
MaxTime == 1          \* last instant of the clock
MaxAddFailures == 1   \* AddCertificate calls that fail within one updateStore
MaxBlocks == 3        \* PEM blocks in one input of ParseCertificates
MaxAdds == 2          \* consecutive AddCertificate calls on one store

\* ------------------------------------------------------- certificates
\* An x509 certificate: Raw stands for the DER encoding, the other fields
\* are the parsed attributes the code reads.  CommonName is a sequence of
\* characters.
F1 == [Raw |-> 1, CommonName |-> <<"C", "A">>, NotBefore |-> 0, NotAfter |-> 9,
       IsCA |-> TRUE, BasicConstraintsValid |-> TRUE]
F2 == [Raw |-> 2, CommonName |-> <<"C", "A">>, NotBefore |-> 0, NotAfter |-> 9,
       IsCA |-> TRUE, BasicConstraintsValid |-> TRUE]
F3 == [Raw |-> 3, CommonName |-> <<"O", " ", "B">>, NotBefore |-> 0, NotAfter |-> 0,
       IsCA |-> TRUE, BasicConstraintsValid |-> TRUE]
F4 == [Raw |-> 4, CommonName |-> <<"L">>, NotBefore |-> 0, NotAfter |-> 9,
       IsCA |-> FALSE, BasicConstraintsValid |-> TRUE]

\* The certificates the sources of a run can yield, and the instants of
\* its clock: F1 is valid throughout, F3 expires after instant 0.
X509Universe == {F1, F3}

Times == 0..MaxTime

\* All sequences over S of length lo..hi.
SeqsOf(S, lo, hi) == UNION {[1..n -> S] : n \in lo..hi}

RECURSIVE Flatten(_)
Flatten(ss) == IF ss = <<>> THEN <<>> ELSE Head(ss) \o Flatten(Tail(ss))

Range(s) == {s[i] : i \in DOMAIN s}

\* All orders in which the elements of the set S can be enumerated.
Orders(S) == {p \in [1..Cardinality(S) -> S] : Range(p) = S}

\* --------------------------------------------------- internal/cert
\* sha256.Sum256(cert.Raw) hex-encoded: an injective digest of Raw.
GetCertificateFingerprint(cert) == <<"sha256", cert.Raw>>

\* certificates compared by subject instead of fingerprint
CompareSubjects(cert1, cert2) == cert1.CommonName = cert2.CommonName

CompareCertificates(cert1, cert2) ==
    GetCertificateFingerprint(cert1) = GetCertificateFingerprint(cert2)

\* ValidateCertificate with the end of the validity window excluded
ValidateCertificateStrict(cert, t) ==
    IF t < cert.NotBefore THEN "not yet valid"
    ELSE IF t >= cert.NotAfter THEN "expired"
    ELSE IF ~cert.IsCA THEN "not a CA"
    ELSE IF ~cert.BasicConstraintsValid THEN "invalid basic constraints"
    ELSE "ok"

\* nil (no error) is "ok"; every other value is the error returned.
ValidateCertificate(cert, t) ==
    IF t < cert.NotBefore THEN "not yet valid"
    ELSE IF t > cert.NotAfter THEN "expired"
    ELSE IF ~cert.IsCA THEN "not a CA"
    ELSE IF ~cert.BasicConstraintsValid THEN "invalid basic constraints"
    ELSE "ok"

\* strings.Contains(strings.ToLower(subject), strings.ToLower(filter)) on
\* character sequences.
ToLower(s) ==
    LET low == [c \in {"C", "A", "O", "B", "L"} |->
                  CASE c = "C" -> "c" [] c = "A" -> "a" [] c = "O" -> "o"
                    [] c = "B" -> "b" [] OTHER -> "l"]
    IN [i \in DOMAIN s |-> IF s[i] \in DOMAIN low THEN low[s[i]] ELSE s[i]]

Contains(s, sub) ==
    \E i \in 0..(Len(s) - Len(sub)) : SubSeq(s, i + 1, i + Len(sub)) = sub

\* the filter test excluding a certificate in whose subject no filter occurs
matchesCertificateFiltersDefaultDeny(cert, filters) ==
    \E i \in DOMAIN filters : Contains(ToLower(cert.CommonName), ToLower(filters[i]))

\* part_002:253-262: both the loop and the line after it return true.
matchesCertificateFilters(cert, filters) ==
    IF \E i \in DOMAIN filters : Contains(ToLower(cert.CommonName), ToLower(filters[i]))
    THEN TRUE
    ELSE TRUE

FilterCertificates(certs, filters) ==
    IF Len(filters) = 0 THEN certs
    ELSE SelectSeq(certs, LAMBDA c : matchesCertificateFilters(c, filters))

FilterChoices == {<<>>, << <<"c", "a">> >>}



\* --------------------------------------------------- encoding/pem
\* File and response bytes are sequences of tokens: a "-----BEGIN t-----"
\* marker, a "-----END t-----" marker, a line break, a run of base64 text
\* encoding the DER bytes raw, or a run of binary DER bytes raw.
BeginLine(t) == [kind |-> "begin", type |-> t, raw |-> 0]
EndLine(t) == [kind |-> "end", type |-> t, raw |-> 0]
NL == [kind |-> "newline", type |-> "", raw |-> 0]
Base64(raw) == [kind |-> "base64", type |-> "", raw |-> raw]
Der(raw) == [kind |-> "der", type |-> "", raw |-> raw]

\* The certificates x509.ParseCertificate can return, by their DER bytes.
Certificates == {F1, F2, F3, F4}

\* x509.ParseCertificate on a sequence of DER runs: [err, cert].
x509ParseCertificate(bytes) ==
    IF Len(bytes) = 1 /\ \E c \in Certificates : c.Raw = bytes[1]
    THEN [err |-> FALSE, cert |-> CHOOSE c \in Certificates : c.Raw = bytes[1]]
    ELSE [err |-> TRUE, cert |-> F1]

Min(S) == CHOOSE x \in S : \A y \in S : x <= y

\* pem.Encode of a CERTIFICATE block: the base64 text ends with a line
\* break before the END marker.
pemEncode(cert) ==
    <<BeginLine("CERTIFICATE"), NL, Base64(cert.Raw), NL, EndLine("CERTIFICATE"), NL>>

RECURSIVE decodeFrom(_, _)
\* The loop of pem.Decode: the first block found in rest, [block, rest]
\* with block a sequence of zero (nil) or one [Type, Bytes]; when no block
\* is found the whole input data is handed back as rest.
decodeFrom(data, rest) ==
    LET starts == {i \in DOMAIN rest :
                     rest[i].kind = "begin" /\ (i = 1 \/ rest[i - 1].kind = "newline")}
    IN IF starts = {} THEN [block |-> <<>>, rest |-> data]
       ELSE
         LET i == Min(starts)
             eols == {j \in (i + 1)..Len(rest) : rest[j].kind = "newline"}
             j == IF eols = {} THEN Len(rest) + 1 ELSE Min(eols)
             after == SubSeq(rest, j + 1, Len(rest))
             ends == {k \in 1..(Len(after) - 1) :
                        after[k].kind = "newline" /\ after[k + 1].kind = "end"}
             e == IF after # <<>> /\ after[1].kind = "end" THEN 1
                  ELSE IF ends = {} THEN 0 ELSE Min(ends) + 1
             body == SubSeq(after, 1, e - 2)
             text == SelectSeq(body, LAMBDA tok : tok.kind # "newline")
         IN IF rest[j - 1].kind \notin {"begin", "end"} THEN decodeFrom(data, after)
            ELSE IF after = <<>> THEN [block |-> <<>>, rest |-> data]
            ELSE IF \/ j - 1 # i
                    \/ e = 0
                    \/ after[e].type # rest[i].type
                    \/ e < Len(after) /\ after[e + 1].kind # "newline"
                    \/ \E k \in DOMAIN text : text[k].kind # "base64"
                 THEN decodeFrom(data, after)
            ELSE [block |-> <<[Type |-> rest[i].type,
                               Bytes |-> [k \in DOMAIN text |-> text[k].raw]]>>,
                  rest |-> SubSeq(after, e + 2, Len(after))]

pemDecode(data) == decodeFrom(data, data)

\* ---------------------------------------------- internal/cert: fetching
\* The bytes of the whole input as x509.ParseCertificate reads them: one
\* DER run per token, text being no DER encoding of a certificate.
DerBytes(data) == [i \in DOMAIN data |-> IF data[i].kind = "der" THEN data[i].raw ELSE 0]

RECURSIVE pemCertificatesUntilMalformed(_)
\* the PEM loop giving up at the first block that is not a certificate
pemCertificatesUntilMalformed(data) ==
    LET d == pemDecode(data) IN
    IF d.block = <<>> THEN <<>>
    ELSE LET parsed == x509ParseCertificate(d.block[1].Bytes)
         IN IF d.block[1].Type = "CERTIFICATE" /\ ~parsed.err
            THEN <<parsed.cert>> \o pemCertificatesUntilMalformed(d.rest)
            ELSE <<>>

RECURSIVE pemCertificates(_)
\* part_002:136-154: the certificates of the CERTIFICATE blocks that parse,
\* in input order; other blocks are passed over.
pemCertificates(data) ==
    LET d == pemDecode(data) IN
    IF d.block = <<>> THEN <<>>
    ELSE LET parsed == x509ParseCertificate(d.block[1].Bytes)
         IN (IF d.block[1].Type = "CERTIFICATE" /\ ~parsed.err THEN <<parsed.cert>> ELSE <<>>)
              \o pemCertificates(d.rest)

\* Fetcher.ParseCertificates: [err, certs].
ParseCertificates(data) ==
    LET pems == pemCertificates(data)
        der == x509ParseCertificate(DerBytes(data))
        certs == IF Len(pems) = 0 /\ ~der.err THEN <<der.cert>> ELSE pems
    IN IF Len(certs) = 0 THEN [err |-> TRUE, certs |-> <<>>]
       ELSE [err |-> FALSE, certs |-> certs]

\* http.NewRequest rejects a URL it cannot parse.
BadURLs == {":bad"}

\* http.Client.Do against a server: the TLS handshake fails on a
\* certificate the client does not trust unless the transport skips the
\* verification; otherwise the server's status and body come back.
Do(req, server) ==
    IF ~server.CertTrusted /\ ~req.InsecureSkipVerify
    THEN [err |-> TRUE, StatusCode |-> 0, Body |-> <<>>]
    ELSE [err |-> FALSE, StatusCode |-> server.StatusCode, Body |-> server.Body]

\* FetchFromURL with a transport that skips verification when asked to
FetchFromURLHonouringFlag(url, headers, verifyTLS, server) ==
    LET req == [Method |-> "GET", URL |-> url, Header |-> headers,
                InsecureSkipVerify |-> ~verifyTLS]
        resp == Do(req, server)
    IN IF url \in BadURLs THEN [err |-> TRUE, certs |-> <<>>, requests |-> <<>>]
       ELSE IF resp.err THEN [err |-> TRUE, certs |-> <<>>, requests |-> <<req>>]
       ELSE IF resp.StatusCode # 200 THEN [err |-> TRUE, certs |-> <<>>, requests |-> <<req>>]
       ELSE IF ~server.ReadOK THEN [err |-> TRUE, certs |-> <<>>, requests |-> <<req>>]
       ELSE [err |-> ParseCertificates(resp.Body).err,
             certs |-> ParseCertificates(resp.Body).certs, requests |-> <<req>>]

\* Fetcher.FetchFromURL: [err, certs] and the requests sent.  The client
\* is the one NewFetcher built, with the default transport.
FetchFromURL(url, headers, verifyTLS, server) ==
    LET req == [Method |-> "GET", URL |-> url, Header |-> headers,
                InsecureSkipVerify |-> FALSE]
        resp == Do(req, server)
    IN IF url \in BadURLs THEN [err |-> TRUE, certs |-> <<>>, requests |-> <<>>]
       ELSE IF resp.err THEN [err |-> TRUE, certs |-> <<>>, requests |-> <<req>>]
       ELSE IF resp.StatusCode # 200 THEN [err |-> TRUE, certs |-> <<>>, requests |-> <<req>>]
       ELSE IF ~server.ReadOK THEN [err |-> TRUE, certs |-> <<>>, requests |-> <<req>>]
       ELSE [err |-> ParseCertificates(resp.Body).err,
             certs |-> ParseCertificates(resp.Body).certs, requests |-> <<req>>]

\* Fetcher.FetchFromFile on a file of the tree: os.ReadFile, then parse.
FetchFromFile(file) ==
    IF ~file.readable THEN [err |-> TRUE, certs |-> <<>>]
    ELSE ParseCertificates(file.data)

RECURSIVE globMatch(_, _)
\* filepath.Match on sequences of characters: "*" matches any run of
\* characters other than the separator.
globMatch(pattern, name) ==
    IF pattern = <<>> THEN name = <<>>
    ELSE IF Head(pattern) = "*"
         THEN \/ globMatch(Tail(pattern), name)
              \/ name # <<>> /\ Head(name) # "/" /\ globMatch(pattern, Tail(name))
    ELSE name # <<>> /\ Head(pattern) = Head(name) /\ globMatch(Tail(pattern), Tail(name))

\* filepath.Base: the characters after the last separator.
Base(path) ==
    LET seps == {i \in DOMAIN path : path[i] = "/"}
    IN IF seps = {} THEN path
       ELSE SubSeq(path, (CHOOSE i \in seps : \A j \in seps : j <= i) + 1, Len(path))

\* the filters matched against the whole path
matchesFiltersFullPath(filePath, filters) ==
    \E i \in DOMAIN filters : globMatch(filters[i], filePath)

matchesFilters(filePath, filters) ==
    \E i \in DOMAIN filters : globMatch(filters[i], Base(filePath))

RECURSIVE walkFrom(_, _, _, _)
\* filepath.Walk with the callback of FetchFromDirectory over the entries
\* of the tree in walk order, from entry i with allCerts collected so far.
walkFrom(entries, filters, i, allCerts) ==
    IF i > Len(entries) THEN [err |-> FALSE, certs |-> allCerts]
    ELSE LET e == entries[i] IN
         IF e.walkErr THEN [err |-> TRUE, certs |-> <<>>]
         ELSE IF e.isDir THEN walkFrom(entries, filters, i + 1, allCerts)
         ELSE IF Len(filters) > 0 /\ ~matchesFilters(e.path, filters)
              THEN walkFrom(entries, filters, i + 1, allCerts)
         ELSE IF FetchFromFile(e).err THEN walkFrom(entries, filters, i + 1, allCerts)
         ELSE walkFrom(entries, filters, i + 1, allCerts \o FetchFromFile(e).certs)

\* Fetcher.FetchFromDirectory on a tree given by its entries in walk order.
FetchFromDirectory(entries, filters) == walkFrom(entries, filters, 1, <<>>)
\* ------------------------------------------- internal/platform/linux
\* A store is the directory of certificate files its backend keeps: a
\* function from file name to the bytes of the file.
SerialOf(cert) == <<"c", "e", "r", "t", "_", cert.Raw>>

generateCertFilename(cert) ==
    LET subject == IF cert.CommonName = <<>> THEN SerialOf(cert) ELSE cert.CommonName
    IN [i \in DOMAIN subject |->
          IF subject[i] \in {" ", "/", "\\", "*"} THEN "_" ELSE subject[i]]

\* The bytes writeCertificateToFile writes: the base64 text of cert.Raw on
\* the line of the END marker, with no line break between them.
writeCertificateToFile(cert) ==
    <<BeginLine("CERTIFICATE"), NL, Base64(cert.Raw), EndLine("CERTIFICATE"), NL>>

RECURSIVE SetToSeq(_)
\* os.ReadDir: the entries of a directory in one fixed order.
SetToSeq(S) ==
    IF S = {} THEN <<>>
    ELSE LET x == CHOOSE y \in S : TRUE IN <<x>> \o SetToSeq(S \ {x})

RECURSIVE parseBlocks(_)
\* The loop over the PEM blocks of one file: the certificates of the
\* CERTIFICATE blocks that parse.
parseBlocks(data) ==
    LET d == pemDecode(data) IN
    IF d.block = <<>> THEN <<>>
    ELSE LET parsed == x509ParseCertificate(d.block[1].Bytes)
         IN (IF d.block[1].Type = "CERTIFICATE" /\ ~parsed.err THEN <<parsed.cert>> ELSE <<>>)
              \o parseBlocks(d.rest)

\* The certificates a listing parses out of the .crt and .pem files of the
\* directory.
DirCertificates(dir) ==
    LET names == SetToSeq({n \in DOMAIN dir : n[Len(n)] \in {".crt", ".pem"}})
    IN Flatten([i \in DOMAIN names |-> parseBlocks(dir[names[i]])])

\* ListCertificates: [err, certs]; an unreadable directory and a directory
\* without any certificate are both errors.
ListCertificates(dir, readable) ==
    IF ~readable THEN [err |-> TRUE, certs |-> <<>>]
    ELSE IF Len(DirCertificates(dir)) = 0 THEN [err |-> TRUE, certs |-> <<>>]
    ELSE [err |-> FALSE, certs |-> DirCertificates(dir)]

\* AddCertificate with outcome "ok", "write" (the file could not be
\* written) or "update" (the file was written, the refresh command failed).
\* The file is named after the subject, so a certificate replaces one with
\* the same common name.
AddCertificate(dir, cert, outcome) ==
    IF outcome = "write" THEN dir
    ELSE ((generateCertFilename(cert) \o <<".crt">>) :> writeCertificateToFile(cert)) @@ dir

\* The directories a store can hold when the run starts: none, one with F1
\* under a name of its own, one with F2 under the name the backend gives
\* it; both files PEM-encoded by another tool.
EmptyDir == <<>>
ContentChoices ==
    {EmptyDir, (<<"o", "l", "d", ".pem">> :> pemEncode(F1)),
     ((generateCertFilename(F2) \o <<".crt">>) :> pemEncode(F2))}

\* The directories a store of the platform can hold: only the Linux
\* backends keep certificate files.
StoreDirs(os) == IF os = "linux" THEN ContentChoices ELSE {EmptyDir}

\* Backup able to succeed on every platform
BackupResultsIfImplemented(os) == BOOLEAN

\* What a store's Backup, ListCertificates and Validate can return on the
\* platform (TRUE: no error).  On darwin and windows every Backup and
\* every ListCertificates returns a "not implemented" error, and Validate
\* of a registered store returns nil.
BackupResults(os) == IF os = "linux" THEN BOOLEAN ELSE {FALSE}

ListResults(os) == IF os = "linux" THEN BOOLEAN ELSE {FALSE}

ValidateResults(os) == IF os = "linux" THEN BOOLEAN ELSE {TRUE}

\* The numbers of calls a loop over n stores can make successfully before
\* it stops, when each call returns one of results.
Successes(n, results) ==
    {k \in 0..n : (k > 0 => TRUE \in results) /\ (k < n => FALSE \in results)}

\* ------------------------------------------------ internal/updater
VARIABLES
    goos,        \* runtime.GOOS of the process
    dryRun,      \* Service.dryRun
    config,      \* Service.config: CertificateSources, TrustStores, Settings
    pc,          \* last stage completed by UpdateTrustStores
    err,         \* error returned by UpdateTrustStores ("none": nil or running)
    backupDir,   \* the backup directory: absent, created, uncreatable, unspecified
    stores,      \* StoreManager.stores: names of the registered stores
    contents,    \* per configured target, the backend's certificate directory
    calls,       \* per target, the calls made on its store, in order
    todo,        \* stores the range loop of service.go:74 has still to visit
    srcIdx,      \* position of fetchAllCertificates in CertificateSources
    fetchLog,    \* per source, what fetchFromSource obtained
    allCerts,    \* fetchAllCertificates' map: source name -> valid certificates
    newCerts,    \* per store, updateStore's concatenation of allCerts
    toAdd,       \* per store, the result of findCertificatesToAdd
    now,         \* the clock read by time.Now()
    call,        \* a single function under test and its arguments
    ret          \* its result, once it has returned

runVars == <<goos, dryRun, config, pc, err, backupDir, stores, contents, calls, todo,
             srcIdx, fetchLog, allCerts, newCerts, toAdd, now>>
fnVars == <<call, ret>>
vars == <<runVars, fnVars>>

SourceNames == {config.CertificateSources[i].Name : i \in DOMAIN config.CertificateSources}
StoreNames == {config.TrustStores[i].Name : i \in DOMAIN config.TrustStores}

SourceTypes == {"url", "file", "directory", "ldap"}

RECURSIVE found(_, _)
\* the inner loop of findCertificatesToAdd
found(x509, currentCerts) ==
    IF currentCerts = <<>> THEN FALSE
    ELSE IF CompareCertificates(x509, Head(currentCerts)) THEN TRUE
    ELSE found(x509, Tail(currentCerts))

RECURSIVE findCertificatesToAdd(_, _)
findCertificatesToAdd(currentCerts, candidates) ==
    IF candidates = <<>> THEN <<>>
    ELSE IF found(Head(candidates).X509Cert, currentCerts)
         THEN findCertificatesToAdd(currentCerts, Tail(candidates))
         ELSE <<Head(candidates)>> \o findCertificatesToAdd(currentCerts, Tail(candidates))

\* fetchFromSource wrapping every filtered certificate, valid or not
wrapUnvalidated(name, rawCerts, filters, t) ==
    LET filtered == FilterCertificates(rawCerts, filters)
    IN [i \in DOMAIN filtered |-> [X509Cert |-> filtered[i], Source |-> name]]

\* fetchFromSource, lines 194-215: filter, validate each certificate at
\* time t and wrap the valid ones with the source name.
validCertsOf(name, rawCerts, filters, t) ==
    LET filtered == FilterCertificates(rawCerts, filters)
        valid == SelectSeq(filtered, LAMBDA c : ValidateCertificate(c, t) = "ok")
    IN [i \in DOMAIN valid |-> [X509Cert |-> valid[i], Source |-> name]]

\* What the fetcher returns for a source of the given type: an error, or
\* the certificates parsed.  ParseCertificates never returns an empty list
\* without an error; a directory walk may.
FetchResults(type) ==
    IF type \notin {"url", "file", "directory"}
    THEN {[err |-> TRUE, certs |-> <<>>]}
    ELSE {[err |-> TRUE, certs |-> <<>>]}
         \cup {[err |-> FALSE, certs |-> r] :
                 r \in SeqsOf(X509Universe, IF type = "directory" THEN 0 ELSE 1, MaxFetch)}

\* The configurations of a run: no source or the sources A and B, each
\* enabled or not; no target or the targets X and Y.
SourceConfigs ==
    {<<>>} \cup {<<[Name |-> "A", Enabled |-> a], [Name |-> "B", Enabled |-> b]>> :
                   a \in BOOLEAN, b \in BOOLEAN}
StoreConfigs == {<<>>, <<[Name |-> "X"], [Name |-> "Y"]>>}

NoCall == [fn |-> "none"]
NoResult == [done |-> FALSE]

\* The platforms the factory builds stores for (runtime.GOOS).
Platforms == {"linux", "darwin", "windows"}

Init ==
    /\ goos \in Platforms
    /\ dryRun \in BOOLEAN
    /\ config \in
         {[CertificateSources |-> srcs, TrustStores |-> tgts,
           Settings |-> [BackupEnabled |-> b, ValidateAfter |-> v]] :
            srcs \in SourceConfigs, tgts \in StoreConfigs, b \in BOOLEAN, v \in BOOLEAN}
    /\ pc = "Start"
    /\ err = "none"
    /\ backupDir = "absent"
    /\ stores = {}
    /\ contents = [s \in StoreNames |-> EmptyDir]
    /\ calls = [s \in StoreNames |-> <<>>]
    /\ todo = {}
    /\ srcIdx = 1
    /\ fetchLog = [i \in SourceNames |-> [status |-> "pending"]]
    /\ allCerts = <<>>
    /\ newCerts = [s \in StoreNames |-> <<>>]
    /\ toAdd = [s \in StoreNames |-> <<>>]
    /\ now = 0
    /\ call = NoCall
    /\ ret = NoResult

Abort(e) == pc' = "Aborted" /\ err' = e

\* ValidateConfig without the test for configured trust stores
configErrorIgnoringStores(cfg, dirGiven, mkdirOK) ==
    IF Len(cfg.CertificateSources) = 0
        THEN [err |-> "no certificate sources configured", dir |-> "absent"]
    ELSE IF cfg.Settings.BackupEnabled /\ ~dirGiven
        THEN [err |-> "backup directory must be specified", dir |-> "unspecified"]
    ELSE IF cfg.Settings.BackupEnabled /\ ~mkdirOK
        THEN [err |-> "failed to create backup directory", dir |-> "uncreatable"]
    ELSE [err |-> "none", dir |-> IF cfg.Settings.BackupEnabled THEN "created" ELSE "absent"]

\* config.ValidateConfig: the error it returns ("none": nil) and what has
\* become of the backup directory.  dirGiven is whether BackupDirectory is
\* a non-empty string, mkdirOK whether os.MkdirAll succeeds on it.
configError(cfg, dirGiven, mkdirOK) ==
    IF Len(cfg.CertificateSources) = 0
        THEN [err |-> "no certificate sources configured", dir |-> "absent"]
    ELSE IF Len(cfg.TrustStores) = 0
        THEN [err |-> "no trust stores configured", dir |-> "absent"]
    ELSE IF cfg.Settings.BackupEnabled /\ ~dirGiven
        THEN [err |-> "backup directory must be specified", dir |-> "unspecified"]
    ELSE IF cfg.Settings.BackupEnabled /\ ~mkdirOK
        THEN [err |-> "failed to create backup directory", dir |-> "uncreatable"]
    ELSE [err |-> "none", dir |-> IF cfg.Settings.BackupEnabled THEN "created" ELSE "absent"]

\* service.go:46-49: config.ValidateConfig and the wrapping of its error
ValidateConfig ==
    /\ pc = "Start"
    /\ \E dirGiven \in BOOLEAN, mkdirOK \in BOOLEAN :
         LET res == configError(config, dirGiven, mkdirOK) IN
         /\ backupDir' = res.dir
         /\ IF res.err # "none"
            THEN Abort("configuration validation failed")
            ELSE pc' = "ConfigValidated" /\ err' = err
    /\ UNCHANGED <<goos, dryRun, config, stores, contents, calls, todo, srcIdx, fetchLog,
                   allCerts, newCerts, toAdd, now, fnVars>>

\* The hosts a run can be on: runtime.GOOS and os.Geteuid().
Hosts == [GOOS : Platforms, Euid : {0, 1000}]

\* TrustStore.Platform values.
PlatformLists == {<<>>, <<"linux">>, <<"darwin", "windows">>, <<"windows", "linux">>}

\* What initializeTrustStores reads of one configured target and of the
\* store its factory builds: RequireRoot is the configured require_root,
\* CreateOK is whether CreateStore returns no error, IsSupported and
\* RequiresRoot are what the store's IsSupported() and RequiresRoot() return.
TargetFlags == [Enabled : BOOLEAN, Platform : PlatformLists, RequireRoot : BOOLEAN,
                CreateOK : BOOLEAN, IsSupported : BOOLEAN, RequiresRoot : BOOLEAN]

IsPlatformSupported(platforms, currentPlatform) ==
    \E i \in DOMAIN platforms : platforms[i] = currentPlatform

\* initializeTrustStores without the privilege test
registersUnprivileged(f, host) ==
    IF ~f.Enabled THEN FALSE
    ELSE IF ~IsPlatformSupported(f.Platform, host.GOOS) THEN FALSE
    ELSE IF ~f.CreateOK THEN FALSE
    ELSE f.IsSupported

\* service.go:100-127 with CreateAndAddStore: whether the target is registered.
registers(f, host) ==
    IF ~f.Enabled THEN FALSE
    ELSE IF ~IsPlatformSupported(f.Platform, host.GOOS) THEN FALSE
    ELSE IF f.RequireRoot /\ host.Euid # 0 THEN FALSE
    ELSE IF ~f.CreateOK THEN FALSE
    ELSE f.IsSupported

\* The registry initializeTrustStores builds for a list of targets, each a
\* name with its flags.
registry(targets, host) ==
    {targets[i].Name : i \in {j \in DOMAIN targets : registers(targets[j].Flags, host)}}

\* Service.initializeTrustStores: never fails.  A registered store is bound
\* to the directory its backend holds at that time.
initializeTrustStores ==
    /\ pc = "ConfigValidated"
    /\ \E host \in {h \in Hosts : h.GOOS = goos}, S \in SUBSET StoreNames :
         /\ \A t \in StoreNames : \E f \in TargetFlags : registers(f, host) <=> t \in S
         /\ stores' = S
         /\ contents' \in {c \in [StoreNames -> StoreDirs(goos)] :
                            \A t \in StoreNames \ S : c[t] = EmptyDir}
    /\ pc' = "StoresInitialized"
    /\ UNCHANGED <<goos, dryRun, config, err, backupDir, calls, todo, srcIdx, fetchLog,
                   allCerts, newCerts, toAdd, now, fnVars>>

\* the guard of service.go:57 without its dry-run test
backupsWantedInDryRun == config.Settings.BackupEnabled

\* service.go:57
backupsWanted == config.Settings.BackupEnabled /\ ~dryRun

\* The calls a range loop over the stores makes when it visits them in
\* the given order and stops at the first failure: the first k calls
\* succeed, call k + 1 (if any store is left) fails.
loopCalls(op, order, k) ==
    [s \in StoreNames |->
       IF \E i \in 1..k : i <= Len(order) /\ order[i] = s
       THEN Append(calls[s], [op |-> op, ok |-> TRUE])
       ELSE IF k < Len(order) /\ order[k + 1] = s
            THEN Append(calls[s], [op |-> op, ok |-> FALSE])
       ELSE calls[s]]

\* createBackups with the error of BackupAllStores only reported.
createBackupsNonFatal ==
    /\ pc = "StoresInitialized"
    /\ IF backupsWanted
       THEN \E order \in Orders(stores), k \in Successes(Cardinality(stores), BackupResults(goos)) :
              calls' = loopCalls("backup", order, k)
       ELSE UNCHANGED calls
    /\ pc' = "BackedUp"
    /\ UNCHANGED <<goos, dryRun, config, err, backupDir, stores, contents, todo, srcIdx, fetchLog,
                   allCerts, newCerts, toAdd, now, fnVars>>

\* service.go:56-61 with StoreManager.BackupAllStores (map order is arbitrary).
createBackups ==
    /\ pc = "StoresInitialized"
    /\ IF backupsWanted
       THEN \E order \in Orders(stores), k \in Successes(Cardinality(stores), BackupResults(goos)) :
              /\ calls' = loopCalls("backup", order, k)
              /\ IF k = Len(order)
                 THEN pc' = "BackedUp" /\ err' = err
                 ELSE Abort("failed to create backups")
       ELSE pc' = "BackedUp" /\ UNCHANGED <<calls, err>>
    /\ UNCHANGED <<goos, dryRun, config, backupDir, stores, contents, todo, srcIdx, fetchLog,
                   allCerts, newCerts, toAdd, now, fnVars>>

\* the stage after a fetch error if the error ended the run
stageAfterSourceFatal(failed) ==
    IF failed THEN "Aborted"
    ELSE IF srcIdx = Len(config.CertificateSources) THEN "Fetched" ELSE pc

\* the stage after the last source if a run without fetched certificates
\* went past the loop over the stores
stageAfterSourceSkipApply(failed) ==
    IF srcIdx = Len(config.CertificateSources)
    THEN IF allCerts = <<>> THEN "PerStoreApplied" ELSE "Fetched"
    ELSE pc

\* service.go:158-162 and 171: a fetch error is printed and the loop goes
\* on; after the last source fetchAllCertificates returns a nil error.
stageAfterSource(failed) ==
    IF srcIdx = Len(config.CertificateSources) THEN "Fetched" ELSE pc

\* a failed fetch tried again Settings.MaxRetries times
fetchAttemptsRetrying(failed, maxRetries) == IF failed THEN 1 + maxRetries ELSE 1

\* service.go:157: the calls of fetchFromSource one iteration makes for an
\* enabled source; Settings.MaxRetries is read nowhere.
fetchAttempts(failed, maxRetries) == 1

\* Settings.MaxRetries values: none, the default.
RetrySettings == {0, 3}

\* One iteration of fetchAllCertificates (service.go:146-172) with the
\* fetchFromSource it calls; the last iteration returns to UpdateTrustStores.
FetchSource ==
    /\ pc = "BackedUp"
    /\ srcIdx <= Len(config.CertificateSources)
    /\ LET source == config.CertificateSources[srcIdx] IN
         IF ~source.Enabled
         THEN /\ fetchLog' = [fetchLog EXCEPT ![source.Name] = [status |-> "disabled"]]
              /\ pc' = stageAfterSource(FALSE)
              /\ UNCHANGED <<allCerts, now>>
         ELSE \E type \in SourceTypes, maxRetries \in RetrySettings : \E res \in FetchResults(type) :
                IF res.err
                THEN /\ fetchLog' = [fetchLog EXCEPT ![source.Name] =
                                       [status |-> "failed",
                                        attempts |-> fetchAttempts(TRUE, maxRetries)]]
                     /\ pc' = stageAfterSource(TRUE)
                     /\ UNCHANGED <<allCerts, now>>
                ELSE \E filters \in FilterChoices, t \in {now, now + 1} \cap Times :
                     /\ now' = t
                     /\ pc' = stageAfterSource(FALSE)
                     /\ fetchLog' = [fetchLog EXCEPT ![source.Name] =
                                       [status |-> "ok", raw |-> res.certs, at |-> t,
                                        attempts |-> fetchAttempts(FALSE, maxRetries)]]
                     /\ allCerts' = (source.Name :> validCertsOf(source.Name, res.certs, filters, t))
                                      @@ allCerts
    /\ srcIdx' = srcIdx + 1
    /\ todo' = IF srcIdx = Len(config.CertificateSources) THEN stores ELSE todo
    /\ UNCHANGED <<goos, dryRun, config, err, backupDir, stores, contents, calls,
                   newCerts, toAdd, fnVars>>

RECURSIVE applyAdds(_, _, _, _)
\* the loop of updateStore, lines 249-256: the directory after the calls
\* for items i..Len(items), where outcome[j] is what call j does.
applyAdds(dir, items, outcome, i) ==
    IF i > Len(items) THEN dir
    ELSE applyAdds(AddCertificate(dir, items[i].X509Cert, outcome[i]), items, outcome, i + 1)

\* the calls of a loop that stops at the first failed AddCertificate
addCallsUntilFailure(items, outcome) ==
    LET n == IF \E i \in DOMAIN items : outcome[i] # "ok"
             THEN CHOOSE i \in DOMAIN items :
                    outcome[i] # "ok" /\ \A j \in 1..(i - 1) : outcome[j] = "ok"
             ELSE Len(items)
    IN [i \in 1..n |->
          [op |-> "add", cert |-> items[i].X509Cert, ok |-> (outcome[i] = "ok")]]

\* the AddCertificate calls of that loop: one per item, whatever the
\* outcome of the calls before it.
addCallsOf(items, outcome) ==
    [i \in DOMAIN items |->
       [op |-> "add", cert |-> items[i].X509Cert, ok |-> (outcome[i] = "ok")]]

\* The outcomes the environment can give the add calls of one updateStore.
AddOutcomes(n) ==
    {o \in [1..n -> {"ok", "write", "update"}] :
        Cardinality({i \in 1..n : o[i] # "ok"}) <= MaxAddFailures}

\* the stores left if a failed updateStore ended the loop
remainingBreak(s, failed) == IF failed THEN {} ELSE todo \ {s}

\* service.go:74-79: the error of updateStore is printed and the loop
\* continues with the stores not yet visited.
remaining(s, failed) == todo \ {s}

\* Service.updateStore for one store of the range loop at service.go:74;
\* the error it returns is only printed there.
updateStore ==
    /\ pc = "Fetched"
    /\ \E s \in todo :
         /\ IF dryRun
            THEN /\ todo' = remaining(s, FALSE)
                 /\ UNCHANGED <<contents, calls, newCerts, toAdd>>
            ELSE \E readable \in ListResults(goos) :
                   LET listing == ListCertificates(contents[s], readable) IN
                   IF listing.err
                   THEN /\ calls' = [calls EXCEPT ![s] = Append(@, [op |-> "list", ok |-> FALSE])]
                        /\ todo' = remaining(s, TRUE)
                        /\ UNCHANGED <<contents, newCerts, toAdd>>
                   ELSE \E order \in Orders(DOMAIN allCerts) :
                          LET pool == Flatten([i \in DOMAIN order |-> allCerts[order[i]]])
                              items == findCertificatesToAdd(listing.certs, pool)
                          IN \E outcome \in AddOutcomes(Len(items)) :
                               /\ todo' = remaining(s, FALSE)
                               /\ newCerts' = [newCerts EXCEPT ![s] = pool]
                               /\ toAdd' = [toAdd EXCEPT ![s] = items]
                               /\ calls' = [calls EXCEPT ![s] =
                                              Append(@, [op |-> "list", ok |-> TRUE,
                                                         certs |-> listing.certs])
                                                \o addCallsOf(items, outcome)]
                               /\ contents' = [contents EXCEPT ![s] =
                                                 applyAdds(@, items, outcome, 1)]
    /\ pc' = IF todo' = {} THEN "PerStoreApplied" ELSE pc
    /\ UNCHANGED <<goos, dryRun, config, err, backupDir, stores, srcIdx, fetchLog,
                   allCerts, now, fnVars>>

\* an empty registry treated as a fatal error
updateNoneFatal ==
    /\ pc = "Fetched"
    /\ stores = {}
    /\ pc' = "Aborted"
    /\ err' = "no trust stores available"
    /\ UNCHANGED <<goos, dryRun, config, backupDir, stores, contents, calls, todo, srcIdx,
                   fetchLog, allCerts, newCerts, toAdd, now, fnVars>>

\* The range loop at service.go:74 over an empty registry.
updateNone ==
    /\ pc = "Fetched"
    /\ stores = {}
    /\ pc' = "PerStoreApplied"
    /\ UNCHANGED <<goos, dryRun, config, err, backupDir, stores, contents, calls, todo, srcIdx,
                   fetchLog, allCerts, newCerts, toAdd, now, fnVars>>

\* the guard of service.go:82 without its dry-run test
validationWantedInDryRun == config.Settings.ValidateAfter

\* service.go:82
validationWanted == config.Settings.ValidateAfter /\ ~dryRun

\* the validation step with the error of ValidateAllStores only reported
validateAllStoresNonFatal ==
    /\ pc = "PerStoreApplied"
    /\ IF validationWanted
       THEN \E order \in Orders(stores), k \in Successes(Cardinality(stores), ValidateResults(goos)) :
              calls' = loopCalls("validate", order, k)
       ELSE UNCHANGED calls
    /\ pc' = "Completed"
    /\ UNCHANGED <<goos, dryRun, config, err, backupDir, stores, contents, todo, srcIdx, fetchLog,
                   allCerts, newCerts, toAdd, now, fnVars>>

\* service.go:81-92 with StoreManager.ValidateAllStores; the run then ends.
validateAllStores ==
    /\ pc = "PerStoreApplied"
    /\ IF validationWanted
       THEN \E order \in Orders(stores), k \in Successes(Cardinality(stores), ValidateResults(goos)) :
              /\ calls' = loopCalls("validate", order, k)
              /\ IF k = Len(order)
                 THEN pc' = "Completed" /\ err' = err
                 ELSE Abort("post-update validation failed")
       ELSE pc' = "Completed" /\ UNCHANGED <<calls, err>>
    /\ UNCHANGED <<goos, dryRun, config, backupDir, stores, contents, todo, srcIdx, fetchLog,
                   allCerts, newCerts, toAdd, now, fnVars>>

Next ==
    \/ ValidateConfig
    \/ initializeTrustStores
    \/ createBackups
    \/ FetchSource
    \/ updateStore
    \/ updateNone
    \/ validateAllStores

Spec == Init /\ [][Next]_vars

\* UpdateTrustStores is sequential code whose calls return: a run that can
\* take a step takes one.
FairSpec == Spec /\ WF_vars(Next)

\* ------------------------------------------- single functions under test
\* The orchestrator is idle while one function is called on drawn inputs.
Idle ==
    /\ goos = "linux"
    /\ dryRun = FALSE
    /\ config = [CertificateSources |-> <<>>, TrustStores |-> <<>>,
                 Settings |-> [BackupEnabled |-> FALSE, ValidateAfter |-> FALSE]]
    /\ pc = "Idle"
    /\ err = "none"
    /\ backupDir = "absent"
    /\ stores = {}
    /\ contents = <<>>
    /\ calls = <<>>
    /\ todo = {}
    /\ srcIdx = 1
    /\ fetchLog = <<>>
    /\ allCerts = <<>>
    /\ newCerts = <<>>
    /\ toAdd = <<>>

\* Certificates with every combination of the attributes ValidateCertificate reads.
AnyCertificate ==
    [Raw : {1}, CommonName : {<<"C", "A">>}, NotBefore : 0..(MaxTime + 1),
     NotAfter : 0..(MaxTime + 1), IsCA : BOOLEAN, BasicConstraintsValid : BOOLEAN]

InitValidate ==
    /\ Idle
    /\ now \in 0..(MaxTime + 2)
    /\ call \in [fn : {"ValidateCertificate"}, cert : AnyCertificate]
    /\ ret = NoResult

CallValidateCertificate ==
    /\ call.fn = "ValidateCertificate"
    /\ ~ret.done
    /\ ret' = [done |-> TRUE, value |-> ValidateCertificate(call.cert, now)]
    /\ UNCHANGED <<runVars, call>>

SpecValidate == InitValidate /\ [][CallValidateCertificate]_vars

\* Candidates as fetchFromSource wraps them.
Wrapped == [X509Cert : {F1, F2, F3}, Source : {"A", "B"}]

InitDiff ==
    /\ Idle
    /\ now = 0
    /\ call \in [fn : {"findCertificatesToAdd"},
                 currentCerts : SeqsOf({F1, F2, F3, F4}, 0, 2),
                 newCerts : SeqsOf(Wrapped, 0, MaxFetch)]
    /\ ret = NoResult

CallFindCertificatesToAdd ==
    /\ call.fn = "findCertificatesToAdd"
    /\ ~ret.done
    /\ ret' = [done |-> TRUE, value |-> findCertificatesToAdd(call.currentCerts, call.newCerts)]
    /\ UNCHANGED <<runVars, call>>

SpecDiff == InitDiff /\ [][CallFindCertificatesToAdd]_vars

\* Two configured targets with every combination of flags.
TargetLists ==
    {<<[Name |-> "X", Flags |-> f], [Name |-> "Y", Flags |-> g]>> :
        f \in TargetFlags, g \in TargetFlags}

InitRegister ==
    /\ Idle
    /\ now = 0
    /\ call \in [fn : {"initializeTrustStores"}, targets : TargetLists, host : Hosts]
    /\ ret = NoResult

CallInitializeTrustStores ==
    /\ call.fn = "initializeTrustStores"
    /\ ~ret.done
    /\ ret' = [done |-> TRUE,
               value |-> [err |-> "none", stores |-> registry(call.targets, call.host)]]
    /\ UNCHANGED <<runVars, call>>

SpecRegister == InitRegister /\ [][CallInitializeTrustStores]_vars

\* Two consecutive runs of updateStore on one store with the same
\* candidate pool, every AddCertificate of the first run succeeding.
InitRerun ==
    /\ Idle
    /\ now = 0
    /\ call \in [fn : {"updateStore"}, dir : ContentChoices,
                 newCerts : SeqsOf(Wrapped, 0, MaxFetch), runs : {0}]
    /\ ret = NoResult

\* service.go:229-256 for a readable store: list, diff, add each item.
\* ret is the toAdd list of the run just made.
CallUpdateStore ==
    /\ call.fn = "updateStore"
    /\ call.runs < 2
    /\ LET listing == ListCertificates(call.dir, TRUE) IN
         IF listing.err
         THEN /\ call' = [call EXCEPT !.runs = @ + 1]
              /\ ret' = [done |-> TRUE, value |-> <<>>]
         ELSE LET items == findCertificatesToAdd(listing.certs, call.newCerts)
                  outcome == [i \in DOMAIN items |-> "ok"]
              IN /\ call' = [call EXCEPT !.runs = @ + 1,
                                         !.dir = applyAdds(@, items, outcome, 1)]
                 /\ ret' = [done |-> TRUE, value |-> items]
    /\ UNCHANGED runVars

SpecRerun == InitRerun /\ [][CallUpdateStore]_vars


\* ------------------------------------------- the fetcher under test
\* FetchFromURL against every server behaviour.

URLs == {"https://ca.example/roots.pem", ":bad"}
HeaderChoices == {<<>>, << <<"Authorization", "token">> >>}
Servers == [CertTrusted : BOOLEAN, StatusCode : {200, 404}, ReadOK : BOOLEAN,
            Body : {pemEncode(F1) \o pemEncode(F3), <<>>}]

InitFetchURL ==
    /\ Idle
    /\ now = 0
    /\ call \in [fn : {"FetchFromURL"}, url : URLs, headers : HeaderChoices,
                 verifyTLS : BOOLEAN, server : Servers]
    /\ ret = NoResult

CallFetchFromURL ==
    /\ call.fn = "FetchFromURL"
    /\ ~ret.done
    /\ ret' = [done |-> TRUE,
               value |-> FetchFromURL(call.url, call.headers, call.verifyTLS, call.server)]
    /\ UNCHANGED <<runVars, call>>

SpecFetchURL == InitFetchURL /\ [][CallFetchFromURL]_vars

\* The blocks an input of ParseCertificates is made of: a well-formed
\* CERTIFICATE block, a CERTIFICATE block whose bytes are no certificate,
\* a block of another type, and a CERTIFICATE block whose END marker is
\* not at the start of a line.
BlockChoices ==
    {[kind |-> "certificate", cert |-> F1], [kind |-> "certificate", cert |-> F3],
     [kind |-> "malformed", cert |-> F1], [kind |-> "other", cert |-> F1],
     [kind |-> "unterminated", cert |-> F1]}

blockBytes(b) ==
    CASE b.kind = "certificate" -> pemEncode(b.cert)
      [] b.kind = "malformed" ->
           <<BeginLine("CERTIFICATE"), NL, Base64(0), NL, EndLine("CERTIFICATE"), NL>>
      [] b.kind = "other" ->
           <<BeginLine("PRIVATE KEY"), NL, Base64(b.cert.Raw), NL, EndLine("PRIVATE KEY"), NL>>
      [] OTHER -> writeCertificateToFile(b.cert)

InitParse ==
    /\ Idle
    /\ now = 0
    /\ call \in {[fn |-> "ParseCertificates", blocks |-> bs,
                  data |-> Flatten([i \in DOMAIN bs |-> blockBytes(bs[i])])] :
                    bs \in SeqsOf(BlockChoices, 0, MaxBlocks)}
                \cup {[fn |-> "ParseCertificates", blocks |-> <<>>, data |-> <<Der(r)>>] :
                        r \in {0, F1.Raw}}
    /\ ret = NoResult

CallParseCertificates ==
    /\ call.fn = "ParseCertificates"
    /\ ~ret.done
    /\ ret' = [done |-> TRUE, value |-> ParseCertificates(call.data)]
    /\ UNCHANGED <<runVars, call>>

SpecParse == InitParse /\ [][CallParseCertificates]_vars

\* The trees FetchFromDirectory walks, as the entries filepath.Walk visits
\* in order: the root d, the files d/a.crt and d/k.key, the directory
\* d/sub and the file d/sub/b.pem.  A file is absent, unreadable, holds a
\* certificate or holds no certificate; walkErr marks a directory that
\* cannot be read.
FileStates(path, cert) ==
    {[path |-> path, isDir |-> FALSE, walkErr |-> FALSE, readable |-> FALSE,
      data |-> pemEncode(cert)],
     [path |-> path, isDir |-> FALSE, walkErr |-> FALSE, readable |-> TRUE,
      data |-> pemEncode(cert)],
     [path |-> path, isDir |-> FALSE, walkErr |-> FALSE, readable |-> TRUE,
      data |-> <<Base64(0), NL>>]}

DirEntry(path, failed) ==
    [path |-> path, isDir |-> TRUE, walkErr |-> failed, readable |-> FALSE, data |-> <<>>]

Opt(S) == {<<>>} \cup {<<e>> : e \in S}

Trees ==
    {<<DirEntry(<<"d">>, TRUE)>>} \cup
    {<<DirEntry(<<"d">>, FALSE)>> \o a \o k \o s :
        a \in Opt(FileStates(<<"d", "/", "a", ".crt">>, F1)),
        k \in Opt(FileStates(<<"d", "/", "k", ".key">>, F3)),
        s \in {<<>>, <<DirEntry(<<"d", "/", "sub">>, TRUE)>>} \cup
              {<<DirEntry(<<"d", "/", "sub">>, FALSE)>> \o b :
                 b \in Opt(FileStates(<<"d", "/", "sub", "/", "b", ".pem">>, F3))}}

GlobLists ==
    {<<>>, << <<"*", ".crt">> >>, << <<"*", ".pem">>, <<"*", ".crt">> >>, << <<"k", "*">> >>}

InitWalk ==
    /\ Idle
    /\ now = 0
    /\ call \in [fn : {"FetchFromDirectory"}, entries : Trees, filters : GlobLists]
    /\ ret = NoResult

CallFetchFromDirectory ==
    /\ call.fn = "FetchFromDirectory"
    /\ ~ret.done
    /\ ret' = [done |-> TRUE, value |-> FetchFromDirectory(call.entries, call.filters)]
    /\ UNCHANGED <<runVars, call>>

SpecWalk == InitWalk /\ [][CallFetchFromDirectory]_vars

\* FilterCertificates on every short list of certificates.
InitFilter ==
    /\ Idle
    /\ now = 0
    /\ call \in [fn : {"FilterCertificates"}, certs : SeqsOf(Certificates, 0, MaxFetch),
                 filters : FilterChoices \cup {<< <<"z">> >>, << <<"l">>, <<"o", " ", "b">> >>}]
    /\ ret = NoResult

CallFilterCertificates ==
    /\ call.fn = "FilterCertificates"
    /\ ~ret.done
    /\ ret' = [done |-> TRUE, value |-> FilterCertificates(call.certs, call.filters)]
    /\ UNCHANGED <<runVars, call>>

SpecFilter == InitFilter /\ [][CallFilterCertificates]_vars

\* ------------------------------------------- the Linux store under test
\* Consecutive AddCertificate calls on one update-ca-trust store, each
\* followed by a ListCertificates of the readable directory.  added is the
\* list of the certificates whose AddCertificate returned no error.
InitStore ==
    /\ Idle
    /\ now = 0
    /\ call \in [fn : {"AddCertificate"}, dir : ContentChoices, added : {<<>>}]
    /\ ret = NoResult

CallAddCertificate ==
    /\ call.fn = "AddCertificate"
    /\ Len(call.added) < MaxAdds
    /\ \E cert \in Certificates, outcome \in {"ok", "write", "update"} :
         /\ call' = [call EXCEPT !.dir = AddCertificate(@, cert, outcome),
                                 !.added = IF outcome = "ok" THEN Append(@, cert) ELSE @]
         /\ ret' = [done |-> TRUE,
                    value |-> [cert |-> cert, err |-> outcome # "ok",
                               listing |-> ListCertificates(
                                              AddCertificate(call.dir, cert, outcome), TRUE)]]
    /\ UNCHANGED runVars

SpecStore == InitStore /\ [][CallAddCertificate]_vars

\* ------------------------------------------------------------ properties
\* The calls with the given operation made on store s, in order.
callsOn(s, op) == SelectSeq(calls[s], LAMBDA c : c.op = op)

\* The certificates of a sequence of wrapped certificates or of add calls.
X509Of(items) == [i \in DOMAIN items |-> items[i].X509Cert]
AddedTo(s) == [i \in DOMAIN callsOn(s, "add") |-> callsOn(s, "add")[i].cert]

\* The candidate pools updateStore can build from allCerts.
Pools ==
    {Flatten([i \in DOMAIN order |-> allCerts[order[i]]]) : order \in Orders(DOMAIN allCerts)}

BackupFailed == \E s \in StoreNames : \E i \in DOMAIN calls[s] :
                   calls[s][i].op = "backup" /\ ~calls[s][i].ok

\* C1: in a non-dry run with backups enabled, a failed backup of any
\* registered store makes UpdateTrustStores return the fatal backup error
\* with no source fetched and no AddCertificate call on any store; and
\* whenever an AddCertificate call has been made, every registered store
\* has had a successful backup.
C1_BackupFailureIsFatal ==
    (~dryRun /\ config.Settings.BackupEnabled) =>
        /\ BackupFailed =>
             /\ pc = "Aborted"
             /\ err = "failed to create backups"
             /\ \A s \in StoreNames : Len(callsOn(s, "add")) = 0
             /\ \A n \in SourceNames : fetchLog[n].status = "pending"
        /\ (\E s \in StoreNames : Len(callsOn(s, "add")) > 0) =>
             \A s \in stores : \E i \in DOMAIN calls[s] :
                /\ calls[s][i].op = "backup" /\ calls[s][i].ok
                /\ \A j \in DOMAIN calls[s] : calls[s][j].op = "add" => i < j

\* C1 witness: the second store's backup failed after the first succeeded,
\* and the run ended with the fatal error.
C1_Witness ==
    /\ ~dryRun /\ config.Settings.BackupEnabled
    /\ BackupFailed
    /\ \E s \in stores : \E i \in DOMAIN calls[s] : calls[s][i].op = "backup" /\ calls[s][i].ok
    /\ pc = "Aborted"

\* C2: in a dry run no AddCertificate, RemoveCertificate, Backup or Restore
\* call is ever made on any store, whatever the configuration, the fetch
\* results and the stores' contents.
C2_DryRunMutatesNothing ==
    dryRun => \A s \in StoreNames : \A i \in DOMAIN calls[s] :
                 calls[s][i].op \notin {"add", "remove", "backup", "restore"}

\* C2 witness: a completed dry run with backups enabled, two registered
\* stores (one of them empty) and a valid fetched certificate.
C2_Witness ==
    /\ dryRun /\ config.Settings.BackupEnabled /\ config.Settings.ValidateAfter
    /\ Cardinality(stores) = 2
    /\ \E s \in stores : contents[s] = EmptyDir
    /\ \E n \in DOMAIN allCerts : Len(allCerts[n]) > 0
    /\ pc = "Completed"

\* C3: in a dry run every registered store is still listed and diffed, and
\* the toAdd list computed for it is the list a non-dry run would pass to
\* AddCertificate for the same fetch results and store contents.
C3_DryRunComputesDiff ==
    (dryRun /\ pc = "Completed") =>
        \A s \in stores :
           /\ Len(callsOn(s, "list")) = 1
           /\ \E pool \in Pools :
                toAdd[s] = findCertificatesToAdd(DirCertificates(contents[s]), pool)

\* C4: on each store AddCertificate is called at most once per fingerprint,
\* also when two sources, or one source twice, yield the same certificate.
C4_OneAddPerFingerprint ==
    \A s \in StoreNames : \A i, j \in DOMAIN AddedTo(s) :
       GetCertificateFingerprint(AddedTo(s)[i]) = GetCertificateFingerprint(AddedTo(s)[j])
          => i = j

\* Whether the fingerprint of x509 is the fingerprint of some certificate of current.
Present(x509, current) ==
    \E i \in DOMAIN current :
       GetCertificateFingerprint(x509) = GetCertificateFingerprint(current[i])

\* C5: findCertificatesToAdd(current, candidates) is exactly the
\* subsequence of the candidates whose fingerprint is the fingerprint of no
\* certificate of current, whatever their subject and their source name.
C5_DiffByFingerprint ==
    ret.done =>
        ret.value = SelectSeq(call.newCerts,
                              LAMBDA c : ~Present(c.X509Cert, call.currentCerts))

\* C5 witness: the store holds F2; the candidate F1, with the same subject
\* and another fingerprint, is returned and the candidate F2 is not.
C5_Witness ==
    /\ ret.done
    /\ call.currentCerts = <<F2>>
    /\ call.newCerts = <<[X509Cert |-> F2, Source |-> "A"], [X509Cert |-> F1, Source |-> "B"]>>
    /\ ret.value = <<[X509Cert |-> F1, Source |-> "B"]>>

\* C6: ValidateCertificate accepts a certificate exactly when
\* NotBefore <= now <= NotAfter, it is a CA and its basic constraints are
\* valid; both ends of the validity window are accepted.
C6_ValidateBoundary ==
    ret.done =>
        ((ret.value = "ok") <=>
            /\ call.cert.NotBefore <= now
            /\ now <= call.cert.NotAfter
            /\ call.cert.IsCA
            /\ call.cert.BasicConstraintsValid)

\* C6 witness: a CA certificate whose NotAfter is the current instant,
\* after its NotBefore, is accepted.
C6_Witness ==
    /\ ret.done
    /\ call.cert.NotBefore < now
    /\ call.cert.NotAfter = now
    /\ ret.value = "ok"

\* The certificates of a fetched source that pass validation at the time
\* of its fetch, in the order the source yielded them.
ValidOf(n) ==
    SelectSeq(fetchLog[n].raw, LAMBDA c : ValidateCertificate(c, fetchLog[n].at) = "ok")

Fetched(n) == fetchLog[n].status = "ok"

\* The run has left fetchAllCertificates.
PastFetch ==
    \/ pc \in {"Fetched", "PerStoreApplied", "Completed"}
    \/ pc = "Aborted" /\ err = "post-update validation failed"

\* C7: every certificate passed to AddCertificate was yielded by a fetched
\* source and passed validation there, and each fetched source contributes
\* all of its certificates that pass validation: rejecting one certificate
\* removes no other.
C7_OnlyValidatedAreAdded ==
    /\ \A s \in StoreNames : \A i \in DOMAIN AddedTo(s) :
          \E n \in SourceNames : Fetched(n) /\ AddedTo(s)[i] \in Range(ValidOf(n))
    /\ \A n \in SourceNames :
          Fetched(n) => n \in DOMAIN allCerts /\ X509Of(allCerts[n]) = ValidOf(n)

\* C7 witness: a source yielded the expired F3 next to the valid F1; F3 was
\* rejected, F1 stayed in the pool and was added to a store.
C7_Witness ==
    \E n \in SourceNames :
       /\ Fetched(n)
       /\ F3 \in Range(fetchLog[n].raw) /\ F3 \notin Range(ValidOf(n))
       /\ F1 \in Range(X509Of(allCerts[n]))
       /\ \E s \in stores : F1 \in Range(AddedTo(s))

\* C8: a source whose fetch failed contributes no certificate; the other
\* enabled sources are still fetched and contribute all their validated
\* certificates to the pool of every store that is diffed; and a fetch
\* failure never ends the run, even if every source fails.
C8_FetchFailureIsolated ==
    /\ \A n \in SourceNames : fetchLog[n].status = "failed" => n \notin DOMAIN allCerts
    /\ (\E n \in SourceNames : fetchLog[n].status = "failed") => (pc = "BackedUp" \/ PastFetch)
    /\ PastFetch =>
         \A i \in DOMAIN config.CertificateSources :
            LET source == config.CertificateSources[i] IN
            /\ fetchLog[source.Name].status # "pending"
            /\ source.Enabled => fetchLog[source.Name].status \in {"ok", "failed"}
    /\ \A n \in SourceNames : Fetched(n) =>
         /\ X509Of(allCerts[n]) = ValidOf(n)
         /\ \A s \in stores : Len(callsOn(s, "list")) = 1 /\ callsOn(s, "list")[1].ok =>
               \A k \in DOMAIN allCerts[n] : allCerts[n][k] \in Range(newCerts[s])

\* C8 witness: the fetch of source A failed, source B was fetched afterwards
\* and its certificate was added to a store; the run completed.
C8_Witness ==
    /\ SourceNames = {"A", "B"}
    /\ fetchLog["A"].status = "failed"
    /\ Fetched("B") /\ Len(allCerts["B"]) > 0
    /\ \E s \in stores : \E k \in DOMAIN toAdd[s] : toAdd[s][k].Source = "B"
    /\ pc = "Completed" /\ err = "none"

AddFailed(s) == \E i \in DOMAIN calls[s] : calls[s][i].op = "add" /\ ~calls[s][i].ok

\* C9: in a non-dry run AddCertificate is called for every item of a
\* store's toAdd list, in order, whether or not earlier calls failed; and a
\* failed AddCertificate neither aborts the run nor gives it an error.
C9_AddFailureIsolated ==
    ~dryRun =>
       \A s \in StoreNames :
          /\ AddedTo(s) = X509Of(toAdd[s])
          /\ AddFailed(s) =>
               /\ pc = "Aborted" => err = "post-update validation failed"
               /\ pc # "Aborted" => err = "none"

\* C9 witness: the first AddCertificate of a store failed, the second was
\* still made, and the run completed without error.
C9_Witness ==
    /\ ~dryRun
    /\ \E s \in stores :
          /\ Len(toAdd[s]) = 2
          /\ Len(callsOn(s, "add")) = 2
          /\ ~callsOn(s, "add")[1].ok /\ callsOn(s, "add")[2].ok
    /\ pc = "Completed" /\ err = "none"

\* The run has left the loop over the stores.
PastApply ==
    \/ pc \in {"PerStoreApplied", "Completed"}
    \/ pc = "Aborted" /\ err = "post-update validation failed"

ValidateCalled(s) == Len(callsOn(s, "validate")) > 0

\* C11: Validate is called on a store only if validate-after is enabled
\* and the run is not a dry run, and only once the loop over the stores has
\* finished for every registered store; a run with validate-after enabled
\* that is not a dry run and completes has validated every registered store.
C11_ValidateOnlyAfterApply ==
    /\ \A s \in StoreNames : ValidateCalled(s) =>
          /\ config.Settings.ValidateAfter /\ ~dryRun
          /\ s \in stores
          /\ pc \in {"Completed", "Aborted"}
          /\ todo = {}
          /\ \A t \in stores : Len(callsOn(t, "list")) = 1
          /\ \A i, j \in DOMAIN calls[s] :
                calls[s][i].op = "validate" /\ calls[s][j].op \in {"list", "add"} => j < i
    /\ (pc = "Completed" /\ config.Settings.ValidateAfter /\ ~dryRun) =>
          \A s \in stores : ValidateCalled(s)

\* C11 witness: a completed run that added a certificate to a store and
\* validated the store afterwards.
C11_Witness ==
    /\ pc = "Completed"
    /\ \E s \in stores : ValidateCalled(s) /\ Len(callsOn(s, "add")) > 0
    /\ Cardinality(stores) = 2

ValidateFailed ==
    \E s \in StoreNames : \E i \in DOMAIN calls[s] :
       calls[s][i].op = "validate" /\ ~calls[s][i].ok

\* What the post-validation step of a run must have done when it ends.
PostValidationOutcome ==
    /\ pc = "Completed" =>
          \A s \in stores :
             /\ Len(callsOn(s, "validate")) = 1
             /\ callsOn(s, "validate")[1].ok
    /\ ValidateFailed => pc = "Aborted" /\ err = "post-update validation failed"
    /\ pc \in {"Completed", "Aborted"}
    /\ \A s \in StoreNames : \A i \in DOMAIN calls[s] :
          calls[s][i].op \notin {"remove", "restore"}

\* C12: when post-validation runs, the run completes only if Validate was
\* called and succeeded on every registered store; a failed Validate ends
\* the run Aborted with the validation error; and the step leaves every
\* store's certificates as the apply stage left them (no remove, no restore).
C12_PostValidationFatalNoRollback ==
    [][(pc = "PerStoreApplied" /\ config.Settings.ValidateAfter /\ ~dryRun) =>
          /\ PostValidationOutcome'
          /\ contents' = contents]_vars

\* C12 witness: a certificate was added to a store, the store's Validate
\* failed, and the run ended Aborted with the certificate's file still in the
\* store.
C12_Witness ==
    /\ pc = "Aborted" /\ err = "post-update validation failed"
    /\ \E s \in stores :
          /\ Len(callsOn(s, "validate")) = 1
          /\ ~callsOn(s, "validate")[1].ok
          /\ \E i \in DOMAIN callsOn(s, "add") :
                /\ callsOn(s, "add")[i].ok
                /\ LET name == generateCertFilename(callsOn(s, "add")[i].cert) \o <<".crt">>
                   IN /\ name \in DOMAIN contents[s]
                      /\ contents[s][name] = writeCertificateToFile(callsOn(s, "add")[i].cert)

C14_EmptyRegistryCompletes ==
    (stores = {} /\ pc \notin {"Start", "ConfigValidated"}
                 /\ err # "configuration validation failed") =>
        /\ \A s \in StoreNames : calls[s] = <<>>
        /\ pc # "Aborted"
        /\ err = "none"
        /\ pc # "Completed" => ENABLED Next

\* C14 witness: targets are configured, none is registered, backups and
\* validate-after are enabled, a source was fetched, and the run completed.
C14_Witness ==
    /\ StoreNames # {} /\ stores = {}
    /\ ~dryRun /\ config.Settings.BackupEnabled /\ config.Settings.ValidateAfter
    /\ \E n \in DOMAIN allCerts : Len(allCerts[n]) > 0
    /\ pc = "Completed" /\ err = "none"

\* C15: if no certificate source is configured, or no trust store is
\* configured, or backups are enabled and the backup directory cannot be
\* created, the run aborts with the configuration error; and a run that
\* aborted with it has registered no store, made no call on any store and
\* fetched no source.
C15_ConfigErrorBeforeAnything ==
    /\ (pc # "Start" /\ \/ Len(config.CertificateSources) = 0
                        \/ Len(config.TrustStores) = 0
                        \/ config.Settings.BackupEnabled /\ backupDir = "uncreatable") =>
          pc = "Aborted" /\ err = "configuration validation failed"
    /\ err = "configuration validation failed" =>
          /\ pc = "Aborted"
          /\ stores = {}
          /\ \A s \in StoreNames : calls[s] = <<>> /\ contents[s] = EmptyDir
          /\ \A n \in SourceNames : fetchLog[n].status = "pending"
          /\ allCerts = <<>>

\* C15 witness: sources and targets are configured, backups are enabled and
\* the backup directory could not be created: the run aborted.
C15_Witness ==
    /\ SourceNames # {} /\ StoreNames # {}
    /\ config.Settings.BackupEnabled /\ backupDir = "uncreatable"
    /\ pc = "Aborted" /\ err = "configuration validation failed"

\* The position of a stage in the process flow.  The code does nothing
\* between a successful post-validation and its return, so the stage
\* PostValidated is the state Completed.
StageRank ==
    [p \in {"Start", "ConfigValidated", "StoresInitialized", "BackedUp", "Fetched",
            "PerStoreApplied", "Completed"} |->
       CASE p = "Start" -> 0 [] p = "ConfigValidated" -> 1 [] p = "StoresInitialized" -> 2
         [] p = "BackedUp" -> 3 [] p = "Fetched" -> 4 [] p = "PerStoreApplied" -> 5
         [] OTHER -> 6]

Terminal == pc \in {"Completed", "Aborted"}

\* A step either stays in its stage, enters the next stage, or aborts; a
\* terminated run takes no step.
StageStep ==
    /\ ~Terminal
    /\ \/ pc' = pc
       \/ pc' = "Aborted"
       \/ pc' \in DOMAIN StageRank /\ StageRank[pc'] = StageRank[pc] + 1

\* C16: a run goes through the stages ConfigValidated, StoresInitialized,
\* BackedUp, Fetched, PerStoreApplied and post-validation in that order,
\* never back to an earlier stage and never past one, and always ends in
\* one of the terminal states Completed and Aborted, where it stays.
C16_StagesInOrder ==
    /\ [][StageStep]_vars
    /\ <>[]Terminal

\* C16 witness: a run with two sources and two stores that went through
\* every stage, backed up, fetched, added and validated, and completed.
C16_Witness ==
    /\ pc = "Completed"
    /\ \A s \in stores : Len(callsOn(s, "backup")) = 1 /\ Len(callsOn(s, "validate")) = 1
    /\ \E s \in stores : Len(callsOn(s, "add")) > 0
    /\ Cardinality(stores) = 2 /\ Cardinality(DOMAIN allCerts) = 2

\* The fingerprints of a sequence of certificates.
Fingerprints(certs) == {GetCertificateFingerprint(certs[i]) : i \in DOMAIN certs}

\* C17: no run calls RemoveCertificate or Restore on a store, and a run
\* only adds: every certificate a store's listing showed when the run
\* reached the store is still held by the store afterwards.
C17_OnlyAdds ==
    \A s \in StoreNames :
       /\ \A i \in DOMAIN calls[s] : calls[s][i].op \notin {"remove", "restore"}
       /\ \A i \in DOMAIN calls[s] :
             (calls[s][i].op = "list" /\ calls[s][i].ok) =>
                Fingerprints(calls[s][i].certs) \subseteq
                   Fingerprints(DirCertificates(contents[s]))

\* C18: a run of updateStore against a store whose listing already holds
\* every candidate fingerprint adds nothing; in particular the second of
\* two consecutive runs with the same candidates, every add of the first
\* one having succeeded, adds nothing.
C18_RerunAddsNothing ==
    /\ (\A i \in DOMAIN call.newCerts :
           Present(call.newCerts[i].X509Cert, DirCertificates(call.dir))) =>
          findCertificatesToAdd(DirCertificates(call.dir), call.newCerts) = <<>>
    /\ (call.runs = 2) => ret.value = <<>>

\* The candidate pool in configuration order: the validated certificates
\* of the fetched sources, concatenated in the order the sources are
\* configured.
ConfiguredOrderPool ==
    LET fetched == SelectSeq(config.CertificateSources,
                             LAMBDA src : src.Name \in DOMAIN allCerts)
    IN Flatten([i \in DOMAIN fetched |-> allCerts[fetched[i].Name]])

\* C19: the order of a store's toAdd list, and of its AddCertificate calls,
\* is fixed by the configuration, the fetch results and the store's
\* contents: it is the order of appearance in the pool that concatenates
\* the sources' validated certificates in their configured order.
C19_DeterministicOrder ==
    \A s \in StoreNames : \A i \in DOMAIN calls[s] :
       (calls[s][i].op = "list" /\ calls[s][i].ok) =>
          /\ toAdd[s] = findCertificatesToAdd(calls[s][i].certs, ConfiguredOrderPool)
          /\ AddedTo(s) = X509Of(toAdd[s])

\* C20: a dry run changes nothing: it makes no mutating call on a store,
\* leaves every store's directory as it was, and creates no backup
\* directory, also when backups are enabled.
C20_DryRunChangesNothing ==
    dryRun =>
       /\ backupDir # "created"
       /\ \A s \in StoreNames : \A i \in DOMAIN calls[s] :
             calls[s][i].op \notin {"add", "remove", "backup", "restore"}

\* C21: a run of updateStore on a store that holds no certificate, with a
\* pool of distinct valid CA certificates, puts the whole pool in toAdd
\* and adds its certificates: the store is not empty afterwards.
C21_EmptyStoreGetsAll ==
    [][(/\ call.runs = 0
        /\ call.dir = EmptyDir
        /\ call.newCerts # <<>>
        /\ Cardinality(Fingerprints(X509Of(call.newCerts))) = Len(call.newCerts)
        /\ \A i \in DOMAIN call.newCerts :
              ValidateCertificate(call.newCerts[i].X509Cert, now) = "ok") =>
          /\ ret'.value = call.newCerts
          /\ call'.dir # EmptyDir]_vars

\* C22: the verify-TLS flag has no effect: FetchFromURL sends the same
\* request and returns the same error and certificates as a call with the
\* same URL, headers and server and the opposite flag.
C22_VerifyTLSIneffective ==
    ret.done =>
       ret.value = FetchFromURL(call.url, call.headers, ~call.verifyTLS, call.server)

\* C22 witness: verification was switched off, the server's certificate is
\* not trusted, and the fetch failed with the verifying request sent.
C22_Witness ==
    /\ ret.done
    /\ ~call.verifyTLS
    /\ ~call.server.CertTrusted
    /\ call.server.StatusCode = 200 /\ call.server.ReadOK /\ call.server.Body # <<>>
    /\ ret.value.err
    /\ Len(ret.value.requests) = 1
    /\ ~ret.value.requests[1].InsecureSkipVerify

\* What the fetch log may say of the sources at any point of a run: the
\* sources before the loop position have been visited and no other; a
\* disabled source was not fetched and contributes nothing; a fetched
\* source, failed or not, was fetched by a single call.
FetchedAtMostOnce ==
    /\ \A i \in DOMAIN config.CertificateSources :
          LET src == config.CertificateSources[i]
              log == fetchLog[src.Name]
          IN /\ (log.status # "pending") <=> (pc # "Idle" /\ i < srcIdx)
             /\ ~src.Enabled => log.status \in {"pending", "disabled"} /\ src.Name \notin DOMAIN allCerts
             /\ src.Enabled => log.status \in {"pending", "ok", "failed"}
             /\ log.status \in {"ok", "failed"} => log.attempts = 1
    /\ PastFetch => \A n \in SourceNames : fetchLog[n].status # "pending"

\* A source's entry of the fetch log is written once.
FetchLogWrittenOnce ==
    \A n \in SourceNames : fetchLog[n].status # "pending" => fetchLog'[n] = fetchLog[n]

\* C23: within one run each enabled source is fetched exactly once, by one
\* call, a failed fetch not being tried again whatever Settings.MaxRetries
\* is, and a disabled source is never fetched.
C23_EachSourceFetchedOnce == []FetchedAtMostOnce /\ [][FetchLogWrittenOnce]_vars

\* C23 witness: the run is past the fetch stage, source A was fetched once
\* and failed, source B is disabled and was not fetched.
C23_Witness ==
    /\ SourceNames = {"A", "B"}
    /\ PastFetch
    /\ fetchLog["A"].status = "failed" /\ fetchLog["A"].attempts = 1
    /\ fetchLog["B"].status = "disabled"

\* The certificates of the well-formed CERTIFICATE blocks of an input, in
\* input order.
WellFormedCertificates(blocks) ==
    LET good == SelectSeq(blocks, LAMBDA b : b.kind = "certificate")
    IN [i \in DOMAIN good |-> good[i].cert]

\* C24: ParseCertificates returns the certificates of the well-formed PEM
\* CERTIFICATE blocks of the input in input order, passing over malformed
\* blocks and blocks of other types; when there is none it returns the
\* certificate the whole input is the DER encoding of, if it is one; and
\* it returns an error exactly when that list is empty.
C24_ParseCertificates ==
    ret.done =>
       LET pems == WellFormedCertificates(call.blocks)
           ders == {c \in Certificates : call.data = <<Der(c.Raw)>>}
           expected == IF pems # <<>> THEN pems
                       ELSE IF ders # {} THEN <<CHOOSE c \in ders : TRUE>>
                       ELSE <<>>
       IN /\ ret.value.certs = expected
          /\ ret.value.err <=> expected = <<>>

\* C24 witness: a malformed block, then a certificate, then a block of
\* another type: the certificate is returned without an error.
C24_Witness ==
    /\ ret.done
    /\ Len(call.blocks) = 3
    /\ call.blocks[1].kind = "malformed"
    /\ call.blocks[2] = [kind |-> "certificate", cert |-> F3]
    /\ call.blocks[3].kind = "other"
    /\ ret.value = [err |-> FALSE, certs |-> <<F3>>]

\* Whether the walk parses an entry: a file, and, when there are filters,
\* one whose base name matches a filter glob.
Selected(e, filters) ==
    /\ ~e.isDir
    /\ filters = <<>> \/ \E k \in DOMAIN filters : globMatch(filters[k], Base(e.path))

\* What a selected file contributes: its certificates, or nothing when it
\* cannot be read or holds no certificate.
Contribution(e, filters) ==
    IF Selected(e, filters) /\ e.readable /\ ~ParseCertificates(e.data).err
    THEN ParseCertificates(e.data).certs
    ELSE <<>>

\* C25: FetchFromDirectory returns, in walk order, the certificates of
\* exactly the files whose base name matches a filter glob (of every file
\* when there is no filter); a file that cannot be read or parsed
\* contributes nothing and causes no error: the fetch fails only when the
\* walk itself cannot read a directory.
C25_DirectoryFetch ==
    ret.done =>
       LET walkFails == \E i \in DOMAIN call.entries : call.entries[i].walkErr
       IN /\ ret.value.err <=> walkFails
          /\ ~walkFails =>
                ret.value.certs =
                   Flatten([i \in DOMAIN call.entries |->
                              Contribution(call.entries[i], call.filters)])

\* C25 witness: with the filters *.pem and *.crt, d/a.crt cannot be read,
\* d/k.key holds a certificate but matches no filter, d/sub/b.pem holds
\* F3: the fetch returns F3 alone and no error.
C25_Witness ==
    /\ ret.done
    /\ call.filters = << <<"*", ".pem">>, <<"*", ".crt">> >>
    /\ Len(call.entries) = 5
    /\ ~call.entries[2].readable
    /\ call.entries[3].readable /\ call.entries[3].data = pemEncode(F3)
    /\ call.entries[5].readable /\ call.entries[5].data = pemEncode(F3)
    /\ ret.value = [err |-> FALSE, certs |-> <<F3>>]

\* C26: certificate-level filters exclude nothing: for every list of
\* certificates and every list of filters FilterCertificates returns the
\* input list, same certificates in the same order.
C26_FiltersExcludeNothing == ret.done => ret.value = call.certs

\* C26 witness: the only filter occurs in the subject of no certificate of
\* the list, and both certificates are returned.
C26_Witness ==
    /\ ret.done
    /\ call.filters = << <<"z">> >>
    /\ call.certs = <<F1, F3>>
    /\ ret.value = <<F1, F3>>

\* C27: AddCertificate never overwrites a certificate added before: after
\* any sequence of calls the store still holds, for every certificate
\* whose AddCertificate succeeded, the file written for it; certificates
\* with different fingerprints are stored under different file names.
C27_AddNeverOverwrites ==
    call.fn = "AddCertificate" =>
       \A i \in DOMAIN call.added :
          /\ LET name == generateCertFilename(call.added[i]) \o <<".crt">>
             IN /\ name \in DOMAIN call.dir
                /\ call.dir[name] = writeCertificateToFile(call.added[i])
          /\ \A j \in DOMAIN call.added :
                ~CompareCertificates(call.added[i], call.added[j]) =>
                   generateCertFilename(call.added[i]) # generateCertFilename(call.added[j])

\* C28: after AddCertificate(c) returned no error, ListCertificates
\* succeeds and its list holds a certificate with c's fingerprint.
C28_AddedIsListed ==
    (call.fn = "AddCertificate" /\ ret.done /\ ~ret.value.err) =>
       /\ ~ret.value.listing.err
       /\ Present(ret.value.cert, ret.value.listing.certs)

\* C29: every store of the registry whose backend's RequiresRoot() is true
\* was registered by a privileged process, whatever the target's
\* configured require_root flag: an unprivileged initializeTrustStores
\* registers no such store.
C29_RootStoresNeedPrivilege ==
    (call.fn = "initializeTrustStores" /\ ret.done) =>
       \A i \in DOMAIN call.targets :
          (call.targets[i].Name \in ret.value.stores /\ call.targets[i].Flags.RequiresRoot) =>
             call.host.Euid = 0

\* C30: on darwin and windows the Backup of every backend returns a "not
\* implemented" error, so a non-dry run with backups enabled and at least
\* one registered store ends Aborted in the backup stage: once it has left
\* initializeTrustStores' result behind it is Aborted with the backup
\* error, the only call made on any store is one failed Backup, no source
\* was fetched and no certificate was added.
C30_BackupNotImplemented ==
    (/\ goos \in {"darwin", "windows"}
     /\ ~dryRun /\ config.Settings.BackupEnabled
     /\ stores # {}
     /\ pc # "StoresInitialized") =>
       /\ pc = "Aborted" /\ err = "failed to create backups"
       /\ \A n \in SourceNames : fetchLog[n].status = "pending"
       /\ allCerts = <<>>
       /\ \A s \in StoreNames :
             /\ callsOn(s, "add") = <<>>
             /\ \A i \in DOMAIN calls[s] : calls[s][i] = [op |-> "backup", ok |-> FALSE]
       /\ \E s \in stores : Len(calls[s]) = 1 /\ \A t \in stores \ {s} : calls[t] = <<>>

\* C30 witness: a non-dry run on darwin with backups enabled registered
\* two stores and ended Aborted with the backup error.
C30_Witness ==
    /\ goos = "darwin"
    /\ ~dryRun /\ config.Settings.BackupEnabled
    /\ stores = {"X", "Y"}
    /\ pc = "Aborted" /\ err = "failed to create backups"
====
